---- MODULE Spec2Model ----
(***************************************************************************)
(* Mod lifecycle manager of the mod.io mod manager (src/gui.py,            *)
(* src/loader): profiles, the mod database, the files of every profile     *)
(* directory, and the operations install, bulk update, toggle, delete and  *)
(* directory migration.                                                    *)
(***************************************************************************)
EXTENDS Integers, Sequences, FiniteSets, TLC

VARIABLES
    profiles,   \* self.profiles: profile name -> mod_directory
    mod_db,     \* self.mod_db["mods"]: insertion-ordered dict, a sequence of [key, val]
    db_file,    \* moddb.json: missing, malformed, or the JSON of a database
    db_bak,     \* moddb.json.bak, likewise
    files,      \* regular files on disk: [dir, seg, name]
    cu,         \* check_updates in progress: its locals and position
    last,       \* what the last handler was called with and what it reported
    ops,        \* handlers invoked so far
    faults,     \* failures of the network and the disk so far
    download,   \* Downloader.download in progress: its locals and position
    move        \* safe_file_move in progress: the two paths and its position

vars == <<profiles, mod_db, db_file, db_bak, files, cu, last, ops, faults, download, move>>

\* the length of the runs explored, in handler invocations
MaxOps == 2

\* the number of network and disk failures in the runs explored
MaxFaults == 1

\* A click is handled when the event queue is pumped: by the event loop when
\* no handler runs, and by QApplication.processEvents() at the end of a round
\* of the loop of check_updates that reached line 640, where the handler
\* runs to its end inside the batch.
EventsPumped == IF cu.pc = "idle" THEN TRUE ELSE cu.pumped

Fault(failed) ==
    /\ failed => faults < MaxFaults
    /\ faults' = IF failed THEN faults + 1 ELSE faults

----------------------------------------------------------------------------
(* File names are sequences of characters, so that glob("*name*") is        *)
(* containment of one name in another.                                      *)

NameA  == <<"a">>
NameAB == <<"a", "b">>
NameC  == <<"c">>
Zip1   == <<"z", "1">>
Zip2   == <<"z", "2">>

TopSeg      == "."
SubSeg      == "sub"
DisabledSeg == ".disabledmods"

StdDir == "mods"
Dirs   == {"mods", "d2"}

ProfileNames == {"Default", "P2"}

\* URLs the user can type; "" is the empty input, "bad" does not parse.
ValidUrls == {"u1", "u2"}
UrlInputs == ValidUrls \cup {"", "bad"}

Entry(seg, base) == [seg |-> seg, base |-> base]

\* What mod.io can serve for a mod: the file name and the entries of the
\* archive of each of its releases. A directory marker is an entry whose base
\* name is empty. One release of u1 holds no file outside .disabledmods.
Served(url) ==
    CASE url = "u1" -> {[zip |-> Zip1,
                         entries |-> <<Entry(TopSeg, NameA), Entry(TopSeg, NameC)>>],
                        [zip |-> Zip1,
                         entries |-> <<Entry(SubSeg, <<>>), Entry(DisabledSeg, NameA)>>]}
      [] url = "u2" -> {[zip |-> Zip2,
                         entries |-> <<Entry(SubSeg, <<>>), Entry(SubSeg, NameC),
                                       Entry(TopSeg, NameAB),
                                       Entry(DisabledSeg, NameC)>>]}
      [] OTHER -> {}

File(dir, seg, name) == [dir |-> dir, seg |-> seg, name |-> name]

\* pattern in text, as fnmatch of "*pattern*"
IsInfix(pat, text) ==
    \E i \in 0..(Len(text) - Len(pat)) : SubSeq(text, i + 1, i + Len(pat)) = pat

\* list(Path(dir, seg).glob(f"*{pat}*"))
Glob(fs, dir, seg, pat) ==
    {f \in fs : f.dir = dir /\ f.seg = seg /\ IsInfix(pat, f.name)}

\* (dir / name).is_file()
IsFile(fs, dir, name) == File(dir, TopSeg, name) \in fs

\* shutil.move / rename of each file of moved into segment seg of its directory
MoveTo(fs, moved, seg) ==
    (fs \ moved) \cup {[f EXCEPT !.seg = seg] : f \in moved}

----------------------------------------------------------------------------
(* The dict self.mod_db["mods"]                                             *)

DictKeys(db) == {db[i].key : i \in DOMAIN db}

DictHas(db, k) == k \in DictKeys(db)

DictGet(db, k) == db[CHOOSE i \in DOMAIN db : db[i].key = k].val

DictSet(db, k, v) ==
    IF DictHas(db, k)
    THEN [i \in DOMAIN db |-> IF db[i].key = k THEN [key |-> k, val |-> v] ELSE db[i]]
    ELSE Append(db, [key |-> k, val |-> v])

ModInfo(local_name, zip_name, profile, enabled, installed_path, url) ==
    [local_name |-> local_name, zip_name |-> zip_name, profile |-> profile,
     enabled |-> enabled, installed_path |-> installed_path, url |-> url]

----------------------------------------------------------------------------
(* load_mod_db and save_mod_db                                              *)

JsonMissing   == [state |-> "missing"]
JsonMalformed == [state |-> "malformed"]

\* json.dump of one value of a record: a bool becomes the literal true or
\* false, a str a string
JsonOfField(f, v) ==
    IF f = "enabled"
    THEN [t |-> IF v THEN "true" ELSE "false"]
    ELSE [t |-> "string", s |-> v]

\* json.load as it would be if it read every literal as True
FieldOfJsonTruthy(f, j) == IF j.t = "string" THEN j.s ELSE TRUE

\* json.load of one value
FieldOfJson(f, j) == IF j.t = "string" THEN j.s ELSE j.t = "true"

\* json.dump(self.mod_db, f): the members in dict order
SaveModDb(db) ==
    [state |-> "json",
     mods  |-> [i \in DOMAIN db |->
                  [key |-> db[i].key,
                   obj |-> [f \in DOMAIN db[i].val |-> JsonOfField(f, db[i].val[f])]]]]

\* load_mod_db: {"mods": {}} when the file is missing or json.load raises
LoadModDb(file) ==
    IF file.state = "json"
    THEN [i \in DOMAIN file.mods |->
            [key |-> file.mods[i].key,
             val |-> [f \in DOMAIN file.mods[i].obj |->
                        FieldOfJson(f, file.mods[i].obj[f])]]]
    ELSE <<>>

\* lines 1194-1197: shutil.copy2(self.db_file, backup_path) when the file exists
SaveBackup(dbf, bak) == IF dbf.state = "missing" THEN bak ELSE dbf

SaveOutcomes == {"ok", "backup_failed", "open_failed", "dump_failed"}

\* save_mod_db: what it leaves on disk
SaveModDbRun(db, dbf, bak, out) ==
    CASE out = "ok"            -> [db_file |-> SaveModDb(db), db_bak |-> SaveBackup(dbf, bak)]
      [] out = "backup_failed" -> [db_file |-> dbf, db_bak |-> bak]
      [] out = "open_failed"   -> [db_file |-> dbf, db_bak |-> SaveBackup(dbf, bak)]
      [] out = "dump_failed"   -> [db_file |-> JsonMalformed, db_bak |-> SaveBackup(dbf, bak)]

----------------------------------------------------------------------------
(* loader.download_mod and Downloader.download                              *)

\* ModUrlScrapper.scrap(url) is not None
Scrap(url) == url \in ValidUrls

DownloadOutcomes == {"ok", "resolve_err", "dl_err"}

\* arch: the release client.get_game(..).get_mod(..).file resolves to
LoaderDownload(fs, dir, url, arch, out) ==
    IF url = "" \/ ~Scrap(url)
    THEN [status |-> "WrongUrl", files |-> fs]
    ELSE IF out = "resolve_err"
    THEN [status |-> "ModFileNotFound", files |-> fs]
    ELSE IF out = "dl_err"
    THEN [status |-> "DownloadError",
          files |-> fs \cup {File(dir, TopSeg, arch.zip)}]
    ELSE [status |-> "ok",
          files |-> fs \cup {File(dir, TopSeg, arch.zip)}]

----------------------------------------------------------------------------
(* extract_mod                                                              *)

\* the filter as it would be if it only dropped the directory markers
IsValidEntryAnywhere(e) == ~(e.base = <<>>)

\* not (f.endswith('/') or f.endswith('\\') or '.disabledmods' in f)
IsValidEntry(e) == ~(e.base = <<>> \/ e.seg = DisabledSeg)

ValidFiles(entries) == SelectSeq(entries, IsValidEntry)

\* extract_mod as it would be if an I/O error kept the names already extracted
ExtractModKeepsPartial(fs, dir, arch, k, err, remove_zip) ==
    LET zf      == File(dir, TopSeg, arch.zip)
        valid   == ValidFiles(arch.entries)
        n       == Len(valid)
        written == {File(dir, valid[i].seg, valid[i].base) : i \in 1..k}
    IN  IF zf \notin fs \/ n = 0
        THEN [extracted |-> <<>>, files |-> fs]
        ELSE IF err
        THEN [extracted |-> [i \in 1..k |-> valid[i].base], files |-> fs \cup written]
        ELSE [extracted |-> [i \in 1..n |-> valid[i].base],
              files |-> (fs \cup written) \ (IF remove_zip THEN {zf} ELSE {})]

\* extract_mod as it would be if remove_zip were honoured for an empty archive
ExtractModRemovesEmpty(fs, dir, arch, k, err, remove_zip) ==
    LET zf      == File(dir, TopSeg, arch.zip)
        valid   == ValidFiles(arch.entries)
        n       == Len(valid)
        written == {File(dir, valid[i].seg, valid[i].base) : i \in 1..k}
    IN  IF zf \notin fs
        THEN [extracted |-> <<>>, files |-> fs]
        ELSE IF n = 0
        THEN [extracted |-> <<>>, files |-> fs \ (IF remove_zip THEN {zf} ELSE {})]
        ELSE IF err
        THEN [extracted |-> <<>>, files |-> fs \cup written]
        ELSE [extracted |-> [i \in 1..n |-> valid[i].base],
              files |-> (fs \cup written) \ (IF remove_zip THEN {zf} ELSE {})]

\* k entries are on disk when the loop ends; err: it ended by an I/O error
ExtractMod(fs, dir, arch, k, err, remove_zip) ==
    LET zf      == File(dir, TopSeg, arch.zip)
        valid   == ValidFiles(arch.entries)
        n       == Len(valid)
        written == {File(dir, valid[i].seg, valid[i].base) : i \in 1..k}
    IN  IF zf \notin fs
        THEN [extracted |-> <<>>, files |-> fs]
        ELSE IF n = 0
        THEN [extracted |-> <<>>, files |-> fs]
        ELSE IF err
        THEN [extracted |-> <<>>, files |-> fs \cup written]
        ELSE [extracted |-> [i \in 1..n |-> valid[i].base],
              files |-> (fs \cup written) \ (IF remove_zip THEN {zf} ELSE {})]

Suffixes == {".zip", ".rar"}

\* extract_mod as it would be if the archive were removed in a finally clause
ExtractModCleansUp(fs, dir, arch, suffix, k, err, remove_zip) ==
    LET ex == ExtractMod(fs, dir, arch, k, err, remove_zip)
    IN  IF suffix # ".zip"
        THEN [extracted |-> <<>>, files |-> fs]
        ELSE [extracted |-> ex.extracted,
              files |-> ex.files \ (IF remove_zip THEN {File(dir, TopSeg, arch.zip)}
                                    ELSE {})]

\* lines 1396-1404 and 1483-1485: a path that is missing or does not end in
\* .zip raises, and the outer handler returns []
ExtractModCall(fs, dir, arch, suffix, k, err, remove_zip) ==
    IF File(dir, TopSeg, arch.zip) \notin fs \/ suffix # ".zip"
    THEN [extracted |-> <<>>, files |-> fs]
    ELSE ExtractMod(fs, dir, arch, k, err, remove_zip)

\* the outcomes of the extraction loop the environment can produce
ExtractRuns(arch) ==
    LET n == Len(ValidFiles(arch.entries))
    IN  {r \in (0..n) \X BOOLEAN : ~r[2] => r[1] = n}

----------------------------------------------------------------------------
(* download_mod (GUI)                                                       *)

RECURSIVE RegisterInstalled(_, _, _, _, _, _, _)
RegisterInstalled(db, fs, extracted, dir, zip, profile, url) ==
    IF extracted = <<>>
    THEN db
    ELSE LET nm == Head(extracted)
             db1 == IF IsFile(fs, dir, nm)
                    THEN DictSet(db, nm, ModInfo(nm, zip, profile, TRUE, dir, url))
                    ELSE db
         IN  RegisterInstalled(db1, fs, Tail(extracted), dir, zip, profile, url)

\* lines 402-467: download, extract, register, save
DownloadModRun(db, dbf, fs, dir, p, url, arch, out, k, err) ==
    LET dl  == LoaderDownload(fs, dir, url, arch, out)
        ex  == ExtractMod(dl.files, dir, arch, k, err, TRUE)
        ok  == dl.status = "ok" /\ ex.extracted # <<>>
        db1 == IF ok
               THEN RegisterInstalled(db, ex.files, ex.extracted, dir, arch.zip, p, url)
               ELSE db
    IN  [files   |-> IF dl.status = "ok" THEN ex.files ELSE dl.files,
         db      |-> db1,
         db_file |-> IF ok THEN SaveModDb(db1) ELSE dbf,
         raised  |-> ~ok,
         saved   |-> ok,
         extracted |-> IF dl.status = "ok" THEN ex.extracted ELSE <<>>,
         fault   |-> IF dl.status # "ok" THEN dl.status
                     ELSE IF Len(ValidFiles(arch.entries)) = 0 THEN "EmptyArchive"
                     ELSE IF err THEN "ExtractionFailed"
                     ELSE "none"]

NoArchive == [zip |-> <<>>, entries |-> <<>>]

\* what the network and the disk can do to one download and extraction
PipelineRuns(url) ==
    IF ~Scrap(url)
    THEN {[arch |-> NoArchive, out |-> "ok", k |-> 0, err |-> FALSE]}
    ELSE {[arch |-> CHOOSE a \in Served(url) : TRUE, out |-> o, k |-> 0, err |-> FALSE] :
            o \in DownloadOutcomes \ {"ok"}}
         \cup UNION {{[arch |-> a, out |-> "ok", k |-> r[1], err |-> r[2]] :
                        r \in ExtractRuns(a)} : a \in Served(url)}

DownloadMod ==
    /\ EventsPumped
    /\ ops < MaxOps
    /\ ops' = ops + 1
    /\ \E url \in UrlInputs, p \in DOMAIN profiles :
         IF url = ""
         THEN /\ last' = [op |-> "download_mod", profile |-> p, url |-> url,
                          zip |-> <<>>, entries |-> <<>>, extracted |-> <<>>,
                          written |-> {},
                          fault |-> "EmptyUrl", raised |-> FALSE, saved |-> FALSE]
              /\ UNCHANGED <<profiles, mod_db, db_file, db_bak, files, cu, faults, download, move>>
         ELSE /\ \E r \in PipelineRuns(url) :
                    LET d == DownloadModRun(mod_db, db_file, files, profiles[p], p, url,
                                            r.arch, r.out, r.k, r.err)
                    IN  /\ Fault(r.out # "ok" \/ r.err)
                        /\ files' = d.files
                        /\ mod_db' = d.db
                        /\ db_file' = d.db_file
                        /\ db_bak' = IF d.saved THEN SaveBackup(db_file, db_bak) ELSE db_bak
                        /\ last' = [op |-> "download_mod", profile |-> p, url |-> url,
                                    zip |-> r.arch.zip, entries |-> r.arch.entries,
                                    extracted |-> d.extracted,
                                    written |-> d.files \ files,
                                    fault |-> d.fault, raised |-> d.raised,
                                    saved |-> d.saved]
              /\ UNCHANGED <<profiles, cu, download, move>>

----------------------------------------------------------------------------
(* The state after construction: profiles.json and moddb.json are loaded.   *)
(* Either nothing was installed yet, or moddb.json comes from a database    *)
(* that recorded no url, or an earlier session installed the mods u2 and u1 *)
(* into the Default profile, or it made a second profile and installed u2   *)
(* into Default and u1 into the second profile.                             *)

Installed(st, p, url, arch) ==
    LET d == DownloadModRun(st.db, st.db_file, st.files, st.profiles[p], p, url, arch,
                            "ok", Len(ValidFiles(arch.entries)), FALSE)
    IN  [profiles |-> st.profiles, db |-> d.db, db_file |-> d.db_file,
         db_bak |-> IF d.saved THEN SaveBackup(st.db_file, st.db_bak) ELSE st.db_bak,
         files |-> d.files]

Release(url) == CHOOSE a \in Served(url) : Len(ValidFiles(a.entries)) > 0

\* load_profiles without profiles.json
FreshDisk ==
    [profiles |-> [p \in {"Default"} |-> StdDir],
     db |-> <<>>, db_file |-> JsonMissing, db_bak |-> JsonMissing, files |-> {}]

\* a moddb.json whose record has no "url" (read as mod_info.get("url", ""))
LegacyDisk ==
    [profiles |-> [p \in {"Default"} |-> StdDir],
     db      |-> <<[key |-> NameC,
                    val |-> ModInfo(NameC, Zip1, "Default", TRUE, StdDir, "")]>>,
     db_file |-> SaveModDb(<<[key |-> NameC,
                              val |-> ModInfo(NameC, Zip1, "Default", TRUE, StdDir, "")]>>),
     db_bak  |-> JsonMissing,
     files   |-> {File(StdDir, TopSeg, NameC)}]

\* a moddb.json whose first record has no "url" and is followed by a record
\* installed from a URL
MixedDisk ==
    LET old == <<[key |-> NameA,
                  val |-> ModInfo(NameA, Zip1, "Default", TRUE, StdDir, "")]>>
    IN  Installed([LegacyDisk EXCEPT !.db = old, !.db_file = SaveModDb(old),
                                     !.files = {File(StdDir, TopSeg, NameA)}],
                  "Default", "u2", Release("u2"))

\* a profiles.json with a second profile
TwoProfileDisk ==
    [profiles |-> [p \in {"Default", "P2"} |-> IF p = "Default" THEN StdDir ELSE "d2"],
     db |-> <<>>, db_file |-> JsonMissing, db_bak |-> JsonMissing, files |-> {}]

StartDisks ==
    {FreshDisk, LegacyDisk, MixedDisk,
     Installed(Installed(FreshDisk, "Default", "u2", Release("u2")),
               "Default", "u1", Release("u1")),
     Installed(Installed(TwoProfileDisk, "Default", "u2", Release("u2")),
               "P2", "u1", Release("u1"))}

Init ==
    /\ \E st \in StartDisks :
         /\ profiles = st.profiles
         /\ mod_db = st.db
         /\ db_file = st.db_file
         /\ db_bak = st.db_bak
         /\ files = st.files
    /\ cu = [pc |-> "idle"]
    /\ last = [op |-> "init"]
    /\ ops = 0
    /\ faults = 0
    /\ download = [pc |-> "idle"]
    /\ move = [pc |-> "idle"]

----------------------------------------------------------------------------
(* on_mod_status_changed: the checkbox of item X was clicked                *)

\* moved: the candidates shutil.move relocated before it raised, all of them
\* when it did not raise
ToggleHandler(db, fs, X, is_enabled, moved) ==
    LET dir == DictGet(db, X).installed_path
        file_candidate     == Glob(fs, dir, TopSeg, X)
        disabled_candidate == Glob(fs, dir, DisabledSeg, X)
        src    == IF is_enabled THEN disabled_candidate ELSE file_candidate
        other  == IF is_enabled THEN file_candidate ELSE disabled_candidate
        dstSeg == IF is_enabled THEN TopSeg ELSE DisabledSeg
        result == IF src # {}
                  THEN (IF moved = src THEN "ok" ELSE "error")
                  ELSE (IF other = {} THEN "rejected" ELSE "ok")
    IN  [result |-> result,
         files  |-> MoveTo(fs, moved \cap src, dstSeg),
         db     |-> IF result = "ok"
                    THEN DictSet(db, X, [DictGet(db, X) EXCEPT !.enabled = is_enabled])
                    ELSE db,
         checked |-> IF result = "ok" THEN is_enabled ELSE ~is_enabled]

OnModStatusChanged ==
    /\ EventsPumped
    /\ ops < MaxOps
    /\ ops' = ops + 1
    /\ \E X \in DictKeys(mod_db) :
         LET info == DictGet(mod_db, X)
             \* the item shows info.enabled (add_mod_to_tree); the click flips it
             is_enabled == ~info.enabled
             src == Glob(files, info.installed_path,
                         IF is_enabled THEN DisabledSeg ELSE TopSeg, X)
         IN  \E moved \in SUBSET src :
               LET t == ToggleHandler(mod_db, files, X, is_enabled, moved)
               IN  /\ Fault(moved # src)
                   /\ files' = t.files
                   /\ mod_db' = t.db
                   /\ db_file' = IF t.result = "ok" THEN SaveModDb(t.db) ELSE db_file
                   /\ db_bak' = IF t.result = "ok" THEN SaveBackup(db_file, db_bak)
                                ELSE db_bak
                   /\ last' = [op |-> "on_mod_status_changed", mod |-> X,
                               is_enabled |-> is_enabled, result |-> t.result,
                               checked |-> t.checked, gone |-> files \ t.files]
    /\ UNCHANGED <<profiles, cu, download, move>>

----------------------------------------------------------------------------
(* safe_file_move and update_mod_state                                      *)

\* f into segment seg of its directory
SafeFileMove(fs, f, seg, out) ==
    LET dst == [f EXCEPT !.seg = seg]
    IN  CASE out = "renamed"       -> [ok |-> TRUE,  files |-> (fs \ {f}) \cup {dst}]
          [] out = "copied"        -> [ok |-> TRUE,  files |-> (fs \ {f}) \cup {dst}]
          [] out = "unlink_failed" -> [ok |-> FALSE, files |-> fs \cup {dst}]
          [] out = "copy_failed"   -> [ok |-> FALSE, files |-> fs \ {dst}]

\* done: the files safe_file_move moved before one failed; bad, out: the file
\* that failed and how (bad is ignored when done holds every file)
UpdateModStateRun(db, fs, X, is_enabled, done, bad, out) ==
    LET dir     == DictGet(db, X).installed_path
        srcSeg  == IF is_enabled THEN DisabledSeg ELSE TopSeg
        dstSeg  == IF is_enabled THEN TopSeg ELSE DisabledSeg
        matched == Glob(fs, dir, srcSeg, X)
        fs1     == MoveTo(fs, done, dstSeg)
    IN  IF matched = {}
        THEN [ret |-> FALSE, files |-> fs, db |-> db]
        ELSE IF done = matched
        THEN [ret |-> TRUE, files |-> fs1,
              db |-> DictSet(db, X, [DictGet(db, X) EXCEPT !.enabled = is_enabled])]
        ELSE [ret |-> FALSE, files |-> SafeFileMove(fs1, bad, dstSeg, out).files,
              db |-> db]

UpdateModState ==
    /\ cu.pc = "idle"
    /\ ops < MaxOps
    /\ ops' = ops + 1
    /\ \E X \in DictKeys(mod_db), is_enabled \in BOOLEAN :
         LET matched == Glob(files, DictGet(mod_db, X).installed_path,
                             IF is_enabled THEN DisabledSeg ELSE TopSeg, X)
         IN  \E done \in SUBSET matched :
               \E bad \in (IF done = matched THEN {File(StdDir, TopSeg, <<>>)}
                           ELSE matched \ done),
                  out \in (IF done = matched THEN {"renamed"}
                           ELSE {"unlink_failed", "copy_failed"}) :
                 LET u == UpdateModStateRun(mod_db, files, X, is_enabled, done, bad, out)
                 IN  /\ Fault(done # matched)
                     /\ files' = u.files
                     /\ mod_db' = u.db
                     /\ db_file' = IF u.ret THEN SaveModDb(u.db) ELSE db_file
                     /\ db_bak' = IF u.ret THEN SaveBackup(db_file, db_bak) ELSE db_bak
                     /\ last' = [op |-> "update_mod_state", mod |-> X,
                                 is_enabled |-> is_enabled, ret |-> u.ret,
                                 \* the last call of safe_file_move, if one was made
                                 move_out |-> IF matched = {} THEN "none" ELSE out,
                                 move_ok |-> IF matched = {} \/ done = matched THEN TRUE
                                             ELSE SafeFileMove(files, bad,
                                                    IF is_enabled THEN TopSeg
                                                    ELSE DisabledSeg, out).ok,
                                 move_dst |-> [bad EXCEPT !.seg = IF is_enabled
                                                                 THEN TopSeg
                                                                 ELSE DisabledSeg]]
    /\ UNCHANGED <<profiles, cu, download, move>>

----------------------------------------------------------------------------
(* delete_selected_mods, the confirmation answered Yes                      *)

\* mod_names as it would be without the filter on the current profile
DeletionSetUnfiltered(db, selected, profile_name) ==
    {n \in selected : DictHas(db, n)}

\* mod_names: the selected items whose record belongs to the current profile
DeletionSet(db, selected, profile_name) ==
    {n \in selected : DictHas(db, n) /\ DictGet(db, n).profile = profile_name}

DeleteKeep(e, names) == e.key \notin names

DeleteRecords(db, names) == SelectSeq(db, LAMBDA e : DeleteKeep(e, names))

\* the files lines 1366 and 1377 list for the names
DeleteTargets(db, fs, names) ==
    UNION {Glob(fs, DictGet(db, n).installed_path, TopSeg, n)
             \cup Glob(fs, DictGet(db, n).installed_path, DisabledSeg, n) :
           n \in names}

\* delete as it would be if it looked only where the enabled flag points
DeleteFilesByFlag(db, fs, names, kept) ==
    fs \ (UNION {Glob(fs, DictGet(db, n).installed_path,
                      IF DictGet(db, n).enabled THEN TopSeg ELSE DisabledSeg, n) :
                 n \in names} \ kept)

\* kept: the files whose unlink raised (logged, lines 1371 and 1382)
DeleteFiles(db, fs, names, kept) == fs \ (DeleteTargets(db, fs, names) \ kept)

\* what the handler met for one name: the record and where its files were
DeleteSeen(db, fs, n) ==
    [name |-> n, installed_path |-> DictGet(db, n).installed_path,
     enabled |-> DictGet(db, n).enabled,
     in_active |-> Glob(fs, DictGet(db, n).installed_path, TopSeg, n) # {},
     in_disabled |-> Glob(fs, DictGet(db, n).installed_path, DisabledSeg, n) # {}]

DeleteSelectedMods ==
    /\ EventsPumped
    /\ ops < MaxOps
    /\ ops' = ops + 1
    /\ \E p \in DOMAIN profiles, selected \in (SUBSET DictKeys(mod_db)) \ {{}} :
         LET mod_names == DeletionSet(mod_db, selected, p)
             run == mod_names # {}
         IN  \E kept \in SUBSET DeleteTargets(mod_db, files, mod_names) :
               /\ Fault(kept # {})
               /\ files' = IF run THEN DeleteFiles(mod_db, files, mod_names, kept)
                                  ELSE files
               /\ mod_db' = IF run THEN DeleteRecords(mod_db, mod_names) ELSE mod_db
               /\ db_file' = IF run THEN SaveModDb(mod_db') ELSE db_file
               /\ db_bak' = IF run THEN SaveBackup(db_file, db_bak) ELSE db_bak
               /\ last' = [op |-> "delete_selected_mods", profile |-> p,
                           selected |-> selected,
                           result |-> IF run THEN "deleted" ELSE "none_in_profile",
                           seen |-> {DeleteSeen(mod_db, files, n) : n \in mod_names},
                           kept |-> kept]
    /\ UNCHANGED <<profiles, cu, download, move>>

----------------------------------------------------------------------------
(* new_profile                                                              *)

NewProfile ==
    /\ EventsPumped
    /\ ops < MaxOps
    /\ ops' = ops + 1
    /\ \E name \in ProfileNames, dir_path \in Dirs :
         IF name \in DOMAIN profiles
         THEN /\ last' = [op |-> "new_profile", name |-> name, result |-> "exists",
                          before |-> profiles]
              /\ UNCHANGED profiles
         ELSE /\ profiles' = [q \in DOMAIN profiles \cup {name} |->
                                 IF q = name THEN dir_path ELSE profiles[q]]
              /\ last' = [op |-> "new_profile", name |-> name, result |-> "created",
                          before |-> profiles]
    /\ UNCHANGED <<mod_db, db_file, db_bak, files, cu, faults, download, move>>

----------------------------------------------------------------------------
(* delete_profile, the confirmation answered Yes, and rename_profile        *)

\* the store as it would be if the last profile were simply removed
DpStoreEmptied(profs, profile_name) ==
    [q \in DOMAIN profs \ {profile_name} |-> profs[q]]

\* lines 1164-1175
DpStore(profs, profile_name) ==
    IF Cardinality(DOMAIN profs) = 1
    THEN [q \in {"Default"} |-> StdDir]
    ELSE [q \in DOMAIN profs \ {profile_name} |-> profs[q]]

DeleteProfile ==
    /\ EventsPumped
    /\ ops < MaxOps
    /\ ops' = ops + 1
    /\ \E current \in DOMAIN profiles :
         /\ profiles' = DpStore(profiles, current)
         /\ last' = [op |-> "delete_profile", name |-> current, before |-> profiles]
    /\ UNCHANGED <<mod_db, db_file, db_bak, files, cu, faults, download, move>>

\* the names typed into the rename dialog
RenameInputs == ProfileNames \cup {"P3"}

\* line 1275: self.profiles[new_name] = self.profiles.pop(old_name)
RpStore(profs, old_name, new_name) ==
    [q \in (DOMAIN profs \ {old_name}) \cup {new_name} |->
        IF q = new_name THEN profs[old_name] ELSE profs[q]]

RenameProfile ==
    /\ EventsPumped
    /\ ops < MaxOps
    /\ ops' = ops + 1
    /\ \E current \in DOMAIN profiles, new_name \in RenameInputs :
         LET result == IF current = "Default" THEN "default_kept"
                       ELSE IF new_name = current THEN "same_name"
                       ELSE IF new_name \in DOMAIN profiles THEN "exists"
                       ELSE "renamed"
         IN  /\ profiles' = IF result = "renamed"
                            THEN RpStore(profiles, current, new_name)
                            ELSE profiles
             /\ last' = [op |-> "rename_profile", name |-> current,
                         new_name |-> new_name, result |-> result,
                         before |-> profiles]
    /\ UNCHANGED <<mod_db, db_file, db_bak, files, cu, faults, download, move>>

----------------------------------------------------------------------------
(* check_updates, the confirmation answered Yes                             *)

CuInProfile(e, profile_name) == e.val.profile = profile_name

\* mods: the (mod_id, info) pairs of the current profile, in dict order
CuMods(db, profile_name) == SelectSeq(db, LAMBDA e : CuInProfile(e, profile_name))

\* disabled_mods: the mod ids whose record is not enabled
CuDisabledMods(mods) == {mods[i].key : i \in {j \in DOMAIN mods : ~mods[j].val.enabled}}

CuMoveOutcomes == {"renamed", "copied_dup", "failed"}

\* lines 610-627: extracted_path.rename(disabled_path), else copy2 and unlink
CuMoveToDisabled(fs, dir, local_name, out) ==
    LET src == File(dir, TopSeg, local_name)
        dst == File(dir, DisabledSeg, local_name)
    IN  CASE out = "renamed"    -> (fs \ {src}) \cup {dst}
          [] out = "copied_dup" -> fs \cup {dst}
          [] out = "failed"     -> fs \ {dst}

\* lines 594-627: the loop over extracted_files; outs[i] is how the move of the
\* i-th remaining entry goes when it is made
RECURSIVE RegisterUpdated(_, _, _, _, _, _)
RegisterUpdated(db, fs, extracted, mod_info, was_disabled, outs) ==
    IF extracted = <<>>
    THEN [db |-> db, files |-> fs]
    ELSE LET nm   == Head(extracted)
             dir  == mod_info.installed_path
             isf  == IsFile(fs, dir, nm)
             db1  == IF isf
                     THEN DictSet(db, nm, [mod_info EXCEPT !.local_name = nm,
                                                           !.enabled = ~was_disabled])
                     ELSE db
             fs1  == IF isf /\ was_disabled
                     THEN CuMoveToDisabled(fs, dir, nm, Head(outs))
                     ELSE fs
         IN  RegisterUpdated(db1, fs1, Tail(extracted), mod_info, was_disabled,
                             Tail(outs))

\* the body of the loop as it would be if the old files were removed before
\* the URL is looked at
CuBodyCleansFirst(db, fs, mod_id, mod_info, disabled_mods, prep_err, arch, out, k, err, outs) ==
    LET dir == mod_info.installed_path
        was_disabled == mod_id \in disabled_mods
        fs1 == IF was_disabled
               THEN fs \ Glob(fs, dir, DisabledSeg, mod_info.local_name)
               ELSE fs
        fs2 == fs1 \ Glob(fs1, dir, TopSeg, mod_info.local_name)
        dl  == LoaderDownload(fs2, dir, mod_info.url, arch, out)
        ex  == ExtractMod(dl.files, dir, arch, k, err, TRUE)
        reg == RegisterUpdated(db, ex.files, ex.extracted, mod_info, was_disabled, outs)
    IN  IF mod_info.url = ""
        THEN [db |-> db, files |-> fs2, completed |-> 0,
              failed |-> <<<<mod_id, "No URL found">>>>, fault |-> "NoUrl"]
        ELSE IF prep_err
        THEN [db |-> db, files |-> fs, completed |-> 1,
              failed |-> <<<<mod_id, "PrepareError">>>>, fault |-> "PrepareError"]
        ELSE IF dl.status # "ok"
        THEN [db |-> db, files |-> dl.files, completed |-> 0,
              failed |-> <<<<mod_id, dl.status>>>>, fault |-> dl.status]
        ELSE IF ex.extracted = <<>>
        THEN [db |-> db, files |-> ex.files, completed |-> 0,
              failed |-> <<<<mod_id, "No files extracted from archive">>>>,
              fault |-> IF Len(ValidFiles(arch.entries)) = 0
                        THEN "EmptyArchive" ELSE "ExtractionFailed"]
        ELSE [db |-> reg.db, files |-> reg.files, completed |-> 1,
              failed |-> <<>>, fault |-> "none"]

\* lines 530-640: the body of the loop for one (mod_id, mod_info)
CuBody(db, fs, mod_id, mod_info, disabled_mods, prep_err, arch, out, k, err, outs) ==
    LET dir == mod_info.installed_path
        was_disabled == mod_id \in disabled_mods
        fs1 == IF was_disabled
               THEN fs \ Glob(fs, dir, DisabledSeg, mod_info.local_name)
               ELSE fs
        fs2 == fs1 \ Glob(fs1, dir, TopSeg, mod_info.local_name)
        dl  == LoaderDownload(fs2, dir, mod_info.url, arch, out)
        ex  == ExtractMod(dl.files, dir, arch, k, err, TRUE)
        reg == RegisterUpdated(db, ex.files, ex.extracted, mod_info, was_disabled, outs)
    IN  IF mod_info.url = ""
        THEN [db |-> db, files |-> fs, completed |-> 0,
              failed |-> <<<<mod_id, "No URL found">>>>, fault |-> "NoUrl"]
        ELSE IF prep_err
        THEN [db |-> db, files |-> fs, completed |-> 1,
              failed |-> <<<<mod_id, "PrepareError">>>>, fault |-> "PrepareError"]
        ELSE IF dl.status # "ok"
        THEN [db |-> db, files |-> dl.files, completed |-> 0,
              failed |-> <<<<mod_id, dl.status>>>>, fault |-> dl.status]
        ELSE IF ex.extracted = <<>>
        THEN [db |-> db, files |-> ex.files, completed |-> 0,
              failed |-> <<<<mod_id, "No files extracted from archive">>>>,
              fault |-> IF Len(ValidFiles(arch.entries)) = 0
                        THEN "EmptyArchive" ELSE "ExtractionFailed"]
        ELSE [db |-> reg.db, files |-> reg.files, completed |-> 1,
              failed |-> <<>>, fault |-> "none"]

\* lines 537-558: the files matching the record that the removal of the old
\* version leaves behind, in the disabled and in the active directory
CuStale(fs, mod_id, mod_info, disabled_mods) ==
    LET dir == mod_info.installed_path
        fs1 == IF mod_id \in disabled_mods
               THEN fs \ Glob(fs, dir, DisabledSeg, mod_info.local_name)
               ELSE fs
        fs2 == fs1 \ Glob(fs1, dir, TopSeg, mod_info.local_name)
    IN  Glob(fs2, dir, DisabledSeg, mod_info.local_name)
        \cup Glob(fs2, dir, TopSeg, mod_info.local_name)

\* Downloader.download: int((downloaded / file_size) * 100) after each chunk of
\* a file of two chunks
DownloadProgress == <<50, 100>>

\* the chunks received: all of them, one before a connection error, none when
\* the release cannot be resolved
DownloadChunks(url, out) ==
    IF url = "" \/ ~Scrap(url) \/ out = "resolve_err" THEN <<>>
    ELSE IF out = "dl_err" THEN SubSeq(DownloadProgress, 1, 1)
    ELSE DownloadProgress

\* extract_mod, lines 1433-1456: int((processed_size / total_size) * 100) after
\* each of the k members written, every member one chunk of the same size
ExtractProgress(arch, k) ==
    LET n == Len(ValidFiles(arch.entries))
    IN  [i \in 1..k |-> (100 * i) \div n]

\* lines 516-525: the value the callback made by make_progress_callback sets;
\* mod_base + progress / 100.0 * progress_portion (+ progress_portion), in
\* units of 1 / (2 * total_mods)
CuCallback(completed, total_mods, progress, start_percent) ==
    LET current_progress == 200 * completed + progress
                            + (IF start_percent THEN 100 ELSE 0)
        shown == current_progress \div (2 * total_mods)
    IN  IF shown > 100 THEN 100 ELSE shown

\* line 639: int(completed * progress_per_mod)
CuCompletedValue(completed, total_mods) == (100 * completed) \div total_mods

\* the values one iteration of the loop sets on the progress bar, in order
CuBars(mod_info, prep_err, arch, out, k, err, completed, total_mods) ==
    LET chunks == DownloadChunks(mod_info.url, out)
        dlv == [i \in DOMAIN chunks |->
                  CuCallback(completed, total_mods, chunks[i], FALSE)]
        exp == ExtractProgress(arch, k)
        exv == [i \in DOMAIN exp |->
                  CuCallback(completed, total_mods, exp[i], TRUE)]
        done == <<CuCompletedValue(completed + 1, total_mods)>>
    IN  IF mod_info.url = "" THEN <<>>
        ELSE IF prep_err THEN done
        ELSE IF out # "ok" THEN dlv
        ELSE IF err \/ Len(ValidFiles(arch.entries)) = 0 THEN dlv \o exv
        ELSE dlv \o exv \o done

\* what the environment can do to one iteration of the loop
CuRuns(mod_info, was_disabled) ==
    LET quiet(a) == [i \in 1..Len(ValidFiles(a.entries)) |-> "renamed"]
        run(pe, r, outs) == [prep_err |-> pe, arch |-> r.arch, out |-> r.out, k |-> r.k,
                             err |-> r.err, outs |-> outs]
        first == CHOOSE r \in PipelineRuns(mod_info.url) : TRUE
    IN  IF mod_info.url = ""
        THEN {run(FALSE, first, <<>>)}
        ELSE {run(TRUE, first, <<>>)}
             \cup {run(FALSE, r, quiet(r.arch)) : r \in PipelineRuns(mod_info.url)}
             \cup UNION {{run(FALSE, r, outs) :
                            outs \in [1..Len(ValidFiles(r.arch.entries)) -> CuMoveOutcomes]} :
                         r \in {x \in PipelineRuns(mod_info.url) :
                                  was_disabled /\ x.out = "ok" /\ ~x.err}}

CheckUpdatesStart ==
    /\ cu.pc = "idle"
    /\ ops < MaxOps
    /\ ops' = ops + 1
    /\ \E p \in DOMAIN profiles :
         LET mods == CuMods(mod_db, p)
         IN  IF Len(mods) > 0
             THEN /\ cu' = [pc |-> "loop", profile |-> p, mods |-> mods,
                            disabled_mods |-> CuDisabledMods(mods), i |-> 1,
                            pumped |-> FALSE, bar |-> 0,
                            completed |-> 0, failed_mods |-> <<>>]
                  /\ last' = [op |-> "check_updates_start", profile |-> p]
             ELSE /\ cu' = cu
                  /\ last' = [op |-> "check_updates_none", profile |-> p]
    /\ UNCHANGED <<profiles, mod_db, db_file, db_bak, files, faults, download, move>>

CheckUpdatesMod ==
    /\ cu.pc = "loop"
    /\ cu.i <= Len(cu.mods)
    /\ LET mod_id   == cu.mods[cu.i].key
           mod_info == cu.mods[cu.i].val
       IN  \E r \in CuRuns(mod_info, mod_id \in cu.disabled_mods) :
             LET b == CuBody(mod_db, files, mod_id, mod_info, cu.disabled_mods,
                             r.prep_err, r.arch, r.out, r.k, r.err, r.outs)
                 bars == CuBars(mod_info, r.prep_err, r.arch, r.out, r.k, r.err,
                                cu.completed, Len(cu.mods))
                 stale == IF mod_info.url = "" \/ r.prep_err
                          THEN {}
                          ELSE CuStale(files, mod_id, mod_info, cu.disabled_mods)
             IN  /\ Fault(r.prep_err \/ r.out # "ok" \/ r.err
                           \/ \E i \in DOMAIN r.outs : r.outs[i] # "renamed")
                 /\ mod_db' = b.db
                 /\ files' = b.files
                 /\ cu' = [cu EXCEPT !.i = @ + 1,
                                     !.pumped = (b.completed = 1),
                                     !.bar = IF bars = <<>> THEN @
                                             ELSE bars[Len(bars)],
                                     !.completed = @ + b.completed,
                                     !.failed_mods = @ \o b.failed]
                 /\ last' = [op |-> "check_updates_mod", mod |-> mod_id,
                             zip |-> r.arch.zip, fault |-> b.fault,
                             url |-> mod_info.url, stale |-> stale,
                             changed |-> (b.db # mod_db \/ b.files # files),
                             failed |-> b.failed,
                             bar |-> cu.bar, bars |-> bars]
    /\ UNCHANGED <<profiles, db_file, db_bak, ops, download, move>>

CheckUpdatesFinish ==
    /\ cu.pc = "loop"
    /\ cu.i > Len(cu.mods)
    /\ db_file' = SaveModDb(mod_db)
    /\ db_bak' = SaveBackup(db_file, db_bak)
    /\ last' = [op |-> "check_updates", profile |-> cu.profile, mods |-> cu.mods,
                disabled_mods |-> cu.disabled_mods, completed |-> cu.completed,
                failed_mods |-> cu.failed_mods]
    /\ cu' = [pc |-> "idle"]
    /\ UNCHANGED <<profiles, mod_db, files, ops, faults, download, move>>

----------------------------------------------------------------------------
(* edit_profile: change the directory of a profile and move its files, the  *)
(* confirmation answered Yes                                                *)

EpTracked(e, fs, old_path) ==
    /\ e.val.installed_path = old_path
    /\ e.val.local_name # <<>>
    /\ IsFile(fs, old_path, e.val.local_name)

\* to_move, in dict order (lines 1104-1114)
EpToMove(db, fs, old_path) ==
    LET hit == SelectSeq(db, LAMBDA e : EpTracked(e, fs, old_path))
    IN  [i \in DOMAIN hit |-> hit[i].val.local_name]

\* the files of old_path that are not the local_name of a record installed there
EpUntracked(db, fs, old_path) ==
    {f \in fs : /\ f.dir = old_path
                /\ ~\E i \in DOMAIN db : /\ db[i].val.installed_path = old_path
                                         /\ db[i].val.local_name = f.name}

\* the migration as it would be if it moved whatever lies in the old directory
EpMoveDirectory(fs, to_move, k, old_path, new_path) ==
    {IF f.dir = old_path THEN [f EXCEPT !.dir = new_path] ELSE f : f \in fs}

\* the loop of shutil.move (lines 1129-1132), k moves made before one raised
EpMoveFiles(fs, to_move, k, old_path, new_path) ==
    (fs \ {File(old_path, TopSeg, to_move[i]) : i \in 1..k})
        \cup {File(new_path, TopSeg, to_move[i]) : i \in 1..k}

\* lines 1135-1137, reached only when no move raised
EpUpdateDb(db, old_path, new_path, raised) ==
    IF raised
    THEN db
    ELSE [i \in DOMAIN db |->
            IF db[i].val.installed_path = old_path
            THEN [db[i] EXCEPT !.val.installed_path = new_path]
            ELSE db[i]]

\* lines 1139 and 1150
EpDirectory(old_path, new_path, raised) == IF raised THEN old_path ELSE new_path

EditProfile ==
    /\ EventsPumped
    /\ ops < MaxOps
    /\ ops' = ops + 1
    /\ \E p \in DOMAIN profiles, dir_path \in Dirs :
         LET old_path == profiles[p]
             to_move  == EpToMove(mod_db, files, old_path)
         IN  /\ dir_path # old_path
             /\ \E k \in 0..Len(to_move) :
                  LET raised == k < Len(to_move)
                  IN       /\ Fault(raised)
                           /\ files' = EpMoveFiles(files, to_move, k, old_path, dir_path)
                           /\ mod_db' = EpUpdateDb(mod_db, old_path, dir_path, raised)
                           /\ db_file' = IF raised THEN db_file ELSE SaveModDb(mod_db')
                           /\ db_bak' = IF raised THEN db_bak
                                        ELSE SaveBackup(db_file, db_bak)
                           /\ profiles' = [profiles EXCEPT
                                             ![p] = EpDirectory(old_path, dir_path, raised)]
                           /\ last' = [op |-> "edit_profile", profile |-> p,
                                       result |-> IF raised THEN "reverted" ELSE "migrated",
                                       old_path |-> old_path, new_path |-> dir_path,
                                       to_move |-> to_move, moved_count |-> k,
                                       untracked |-> EpUntracked(mod_db, files, old_path),
                                       attempted |-> IF raised THEN k + 1 ELSE k]
    /\ UNCHANGED <<cu, download, move>>

----------------------------------------------------------------------------
Next ==
    \/ DownloadMod
    \/ OnModStatusChanged
    \/ UpdateModState
    \/ DeleteSelectedMods
    \/ NewProfile
    \/ DeleteProfile
    \/ RenameProfile
    \/ CheckUpdatesStart
    \/ CheckUpdatesMod
    \/ CheckUpdatesFinish
    \/ EditProfile

Spec == Init /\ [][Next]_vars

----------------------------------------------------------------------------
(* The database store on its own: save_mod_db and load_mod_db applied to    *)
(* databases whose records carry every field download_mod writes (lines    *)
(* 444-454), with the failures a save can meet.                             *)

StoredInfo(local_name, enabled, updated_date) ==
    [name |-> local_name, local_name |-> local_name, zip_name |-> Zip1,
     installed_date |-> "t0", updated_date |-> updated_date,
     profile |-> "Default", enabled |-> enabled, installed_path |-> StdDir,
     url |-> "u1"]

StoredDbs ==
    {<<>>,
     <<[key |-> NameA, val |-> StoredInfo(NameA, TRUE, "t0")]>>,
     <<[key |-> NameA, val |-> StoredInfo(NameA, FALSE, "t1")],
       [key |-> NameC, val |-> StoredInfo(NameC, TRUE, "t0")]>>,
     <<[key |-> NameC, val |-> StoredInfo(NameC, FALSE, "t0")],
       [key |-> NameA, val |-> StoredInfo(NameA, TRUE, "t1")]>>}

StoreInit ==
    /\ db_file \in {JsonMissing, JsonMalformed} \cup {SaveModDb(d) : d \in StoredDbs}
    /\ mod_db = LoadModDb(db_file)
    /\ db_bak = JsonMissing
    /\ profiles = [p \in {"Default"} |-> StdDir]
    /\ files = {}
    /\ cu = [pc |-> "idle"]
    /\ last = [op |-> "init"]
    /\ ops = 0
    /\ faults = 0
    /\ download = [pc |-> "idle"]
    /\ move = [pc |-> "idle"]

\* a handler changes the database in memory
StoreEdit ==
    /\ \E d \in StoredDbs \ {mod_db} : mod_db' = d
    /\ last' = [op |-> "edit"]
    /\ UNCHANGED <<profiles, db_file, db_bak, files, cu, ops, faults, download, move>>

StoreSave ==
    /\ \E out \in SaveOutcomes :
         LET r == SaveModDbRun(mod_db, db_file, db_bak, out)
         IN  /\ out = "backup_failed" => db_file.state # "missing"
             /\ db_file' = r.db_file
             /\ db_bak' = r.db_bak
             /\ last' = [op |-> "save_mod_db", out |-> out, file_before |-> db_file]
    /\ UNCHANGED <<profiles, mod_db, files, cu, ops, faults, download, move>>

\* the program is started again: self.mod_db = self.load_mod_db()
StoreLoad ==
    /\ mod_db' = LoadModDb(db_file)
    /\ last' = [op |-> "load_mod_db", file_state |-> db_file.state,
                memory_before |-> mod_db]
    /\ UNCHANGED <<profiles, db_file, db_bak, files, cu, ops, faults, download, move>>

\* moddb.json is removed or damaged from outside
StoreDamage ==
    /\ \E f \in {JsonMissing, JsonMalformed} : f # db_file /\ db_file' = f
    /\ last' = [op |-> "damage"]
    /\ UNCHANGED <<profiles, mod_db, db_bak, files, cu, ops, faults, download, move>>

StoreNext ==
    \/ StoreEdit
    \/ StoreSave
    \/ StoreLoad
    \/ StoreDamage

SpecStore == StoreInit /\ [][StoreNext]_vars

----------------------------------------------------------------------------
(* Downloader.download on its own: any declared size, any chunking          *)

\* the largest mod.file.size declared, in bytes
MaxSize == 3

\* the most chunks response.iter_content yields
MaxChunks == 3

\* the longest chunk yielded, in bytes
MaxChunkLen == 2

RECURSIVE SeqsUpTo(_, _)
SeqsUpTo(S, n) ==
    IF n = 0 THEN {<<>>}
    ELSE LET shorter == SeqsUpTo(S, n - 1)
         IN  shorter \cup {Append(q, x) : q \in shorter, x \in S}

\* the bodies the server can stream
Bodies == SeqsUpTo(1..MaxChunkLen, MaxChunks)

\* line 46: int((downloaded / file_size) * 100), file_size > 0
DownloadPercent(downloaded, file_size) == (downloaded * 100) \div file_size

DownloadInit ==
    /\ \E file_size \in 0..MaxSize, body \in Bodies :
         download = [pc |-> "streaming", file_size |-> file_size, body |-> body,
               downloaded |-> 0, reported |-> <<>>]
    /\ profiles = [p \in {"Default"} |-> StdDir]
    /\ mod_db = <<>>
    /\ db_file = JsonMissing
    /\ db_bak = JsonMissing
    /\ files = {}
    /\ cu = [pc |-> "idle"]
    /\ last = [op |-> "init"]
    /\ ops = 0
    /\ faults = 0
    /\ move = [pc |-> "idle"]

\* lines 43-48: one round of the loop over response.iter_content; the division
\* raises ZeroDivisionError when file_size is 0
DownloadChunk ==
    /\ download.pc = "streaming"
    /\ download.body # <<>>
    /\ LET downloaded == download.downloaded + Head(download.body)
       IN  IF download.file_size = 0
           THEN /\ download' = [download EXCEPT !.pc = "raised", !.body = Tail(@),
                                    !.downloaded = downloaded]
                /\ last' = [op |-> "chunk", raised |-> TRUE]
           ELSE /\ download' = [download EXCEPT !.body = Tail(@), !.downloaded = downloaded,
                                    !.reported = Append(@, DownloadPercent(downloaded,
                                                                           download.file_size))]
                /\ last' = [op |-> "chunk", raised |-> FALSE]
    /\ UNCHANGED <<profiles, mod_db, db_file, db_bak, files, cu, ops, faults, move>>

\* the response is exhausted and download returns
DownloadReturn ==
    /\ download.pc = "streaming"
    /\ download.body = <<>>
    /\ download' = [download EXCEPT !.pc = "returned"]
    /\ last' = [op |-> "download"]
    /\ UNCHANGED <<profiles, mod_db, db_file, db_bak, files, cu, ops, faults, move>>

DownloadNext ==
    \/ DownloadChunk
    \/ DownloadReturn

SpecDownload == DownloadInit /\ [][DownloadNext]_vars

----------------------------------------------------------------------------
(* safe_file_move on its own, step by step: what is at src and at dst       *)

\* what a path can hold: nothing, the content of a file, or a truncated copy
Contents == {"s1", "s2", "s3", "s4"}

MoveInit ==
    /\ \E s \in Contents, d \in Contents \cup {"absent"}, parent \in BOOLEAN :
         /\ ~parent => d = "absent"
         /\ move = [pc |-> "called", content |-> s, src |-> s, dst |-> d,
                    parent |-> parent, ret |-> FALSE]
    /\ profiles = [p \in {"Default"} |-> StdDir]
    /\ mod_db = <<>>
    /\ db_file = JsonMissing
    /\ db_bak = JsonMissing
    /\ files = {}
    /\ cu = [pc |-> "idle"]
    /\ last = [op |-> "init"]
    /\ ops = 0
    /\ faults = 0
    /\ download = [pc |-> "idle"]

\* the fallback as it would be if the source were unlinked in a finally clause
SfmCopyCleansSource(m, out) ==
    CASE out = "ok"      -> [m EXCEPT !.dst = m.src, !.src = "absent", !.ret = TRUE,
                                      !.pc = "returned"]
      [] out = "partial" -> [m EXCEPT !.dst = "partial", !.src = "absent",
                                      !.pc = "returned"]
      [] out = "refused" -> [m EXCEPT !.src = "absent", !.pc = "returned"]

\* line 1582: shutil.copy2(src, dst); it raises before opening dst (refused)
\* or after truncating it (partial), and the handler returns False
SfmCopy(m, out) ==
    CASE out = "ok"      -> [m EXCEPT !.dst = m.src, !.pc = "unlink"]
      [] out = "partial" -> [m EXCEPT !.dst = "partial", !.pc = "returned"]
      [] out = "refused" -> [m EXCEPT !.pc = "returned"]

\* lines 1567-1572: dst.parent.mkdir, and dst.unlink() when dst exists
MovePrepare ==
    /\ move.pc = "called"
    /\ \E raised \in BOOLEAN :
         /\ move' = IF raised
                    THEN [move EXCEPT !.pc = "fallback"]
                    ELSE [move EXCEPT !.dst = "absent", !.parent = TRUE,
                                      !.pc = "rename"]
         /\ last' = [op |-> "prepare", raised |-> raised]
    /\ UNCHANGED <<profiles, mod_db, db_file, db_bak, files, cu, ops, faults, download>>

\* lines 1575-1576: src.rename(dst); return True
MoveRename ==
    /\ move.pc = "rename"
    /\ \E raised \in BOOLEAN :
         /\ move' = IF raised
                    THEN [move EXCEPT !.pc = "fallback"]
                    ELSE [move EXCEPT !.dst = move.src, !.src = "absent",
                                      !.ret = TRUE, !.pc = "returned"]
         /\ last' = [op |-> "rename", raised |-> raised]
    /\ UNCHANGED <<profiles, mod_db, db_file, db_bak, files, cu, ops, faults, download>>

MoveCopy ==
    /\ move.pc = "fallback"
    /\ \E out \in {"ok", "partial", "refused"} :
         /\ ~move.parent => out = "refused"
         /\ move' = SfmCopy(move, out)
         /\ last' = [op |-> "copy2", out |-> out]
    /\ UNCHANGED <<profiles, mod_db, db_file, db_bak, files, cu, ops, faults, download>>

\* lines 1583-1586: src.unlink(); return True, or the handler returns False
MoveUnlink ==
    /\ move.pc = "unlink"
    /\ \E raised \in BOOLEAN :
         /\ move' = IF raised
                    THEN [move EXCEPT !.pc = "returned"]
                    ELSE [move EXCEPT !.src = "absent", !.ret = TRUE,
                                      !.pc = "returned"]
         /\ last' = [op |-> "unlink", raised |-> raised]
    /\ UNCHANGED <<profiles, mod_db, db_file, db_bak, files, cu, ops, faults, download>>

\* update_mod_state, lines 1601-1603: the next file of the loop, after a move
\* that returned True
MoveCalled ==
    /\ move.pc = "returned"
    /\ move.ret
    /\ \E s \in Contents \ {move.content}, d \in Contents \cup {"absent"} :
         move' = [pc |-> "called", content |-> s, src |-> s, dst |-> d,
                  parent |-> TRUE, ret |-> FALSE]
    /\ last' = [op |-> "safe_file_move"]
    /\ UNCHANGED <<profiles, mod_db, db_file, db_bak, files, cu, ops, faults, download>>

MoveNext ==
    \/ MoveCalled
    \/ MovePrepare
    \/ MoveRename
    \/ MoveCopy
    \/ MoveUnlink

SpecMove == MoveInit /\ [][MoveNext]_vars

----------------------------------------------------------------------------
(* extract_mod on its own: any path, either value of remove_zip            *)

Archives == UNION {Served(u) : u \in ValidUrls}

ExtractInit ==
    /\ files \in SUBSET ({File(StdDir, TopSeg, a.zip) : a \in Archives}
                         \cup {File(StdDir, TopSeg, NameA)})
    /\ profiles = [p \in {"Default"} |-> StdDir]
    /\ mod_db = <<>>
    /\ db_file = JsonMissing
    /\ db_bak = JsonMissing
    /\ cu = [pc |-> "idle"]
    /\ last = [op |-> "init"]
    /\ ops = 0
    /\ faults = 0
    /\ download = [pc |-> "idle"]
    /\ move = [pc |-> "idle"]

ExtractCall ==
    /\ \E arch \in Archives, suffix \in Suffixes, remove_zip \in BOOLEAN :
         \E r \in ExtractRuns(arch) :
           LET ex == ExtractModCall(files, StdDir, arch, suffix, r[1], r[2], remove_zip)
           IN  /\ files' = ex.files
               /\ last' = [op |-> "extract_mod", zip |-> arch.zip,
                           entries |-> arch.entries, suffix |-> suffix,
                           remove_zip |-> remove_zip,
                           existed |-> File(StdDir, TopSeg, arch.zip) \in files,
                           k |-> r[1], err |-> r[2],
                           extracted |-> ex.extracted]
    /\ UNCHANGED <<profiles, mod_db, db_file, db_bak, cu, ops, faults, download, move>>

\* a download leaves an archive in the directory
ExtractArrives ==
    /\ \E a \in Archives :
         /\ File(StdDir, TopSeg, a.zip) \notin files
         /\ files' = files \cup {File(StdDir, TopSeg, a.zip)}
    /\ last' = [op |-> "arrives"]
    /\ UNCHANGED <<profiles, mod_db, db_file, db_bak, cu, ops, faults, download, move>>

ExtractNext ==
    \/ ExtractCall
    \/ ExtractArrives

SpecExtract == ExtractInit /\ [][ExtractNext]_vars

\* the runs in which the network and the disk never fail
SpecNoFault == Init /\ [][Next /\ faults' = faults]_vars

----------------------------------------------------------------------------
(* Claims                                                                   *)

FailedIds(failed_mods) == {failed_mods[j][1] : j \in DOMAIN failed_mods}

\* C1: location coherence. Whenever no handler is running, no file matching an
\* enabled record lies in the disabled subdirectory of its directory, and no
\* file matching a disabled record lies in the active directory.
C1_LocationCoherence ==
    cu.pc = "idle" =>
        \A i \in DOMAIN mod_db :
            LET info == mod_db[i].val
            IN  Glob(files, info.installed_path,
                     IF info.enabled THEN DisabledSeg ELSE TopSeg,
                     info.local_name) = {}

\* C2: a toggle (handler or helper) that finds no file matching the record in
\* the source directory of the requested state is rejected: the database and
\* the files are unchanged and the checkbox is put back.
C2_ToggleRejectedWithoutSource ==
    [][(/\ last'.op \in {"on_mod_status_changed", "update_mod_state"}
        /\ ops' = ops + 1
        /\ Glob(files, DictGet(mod_db, last'.mod).installed_path,
                IF last'.is_enabled THEN DisabledSeg ELSE TopSeg, last'.mod) = {})
       => /\ mod_db' = mod_db
          /\ files' = files
          /\ IF last'.op = "on_mod_status_changed"
             THEN last'.result = "rejected" /\ last'.checked = ~last'.is_enabled
             ELSE ~last'.ret]_vars

\* C3: after a bulk update every record it refreshed without failure has the
\* enabled flag it had before the batch (the first half of the claim; the
\* place of the refreshed file follows the flag the code writes).
C3_BulkUpdateKeepsEnabled ==
    last.op = "check_updates" =>
        \A i \in DOMAIN last.mods :
            LET id   == last.mods[i].key
                info == last.mods[i].val
            IN  id \notin FailedIds(last.failed_mods) =>
                    /\ DictHas(mod_db, id)
                    /\ DictGet(mod_db, id).enabled = info.enabled

\* C4: a bulk update over n records counts every record once, as a success or
\* as a failure: successes + failures = n, a failed record has exactly one
\* entry in the failure list, and every record was attempted.
C4_BulkUpdateCountsOnce ==
    last.op = "check_updates" =>
        /\ last.completed + Len(last.failed_mods) = Len(last.mods)
        /\ \A j, k \in DOMAIN last.failed_mods :
               last.failed_mods[j][1] = last.failed_mods[k][1] => j = k

\* C4, the part the code keeps: the batch is never cut short, and no record
\* has more than one entry in the failure list.
C4_EveryRecordAttempted ==
    last.op = "check_updates" =>
        /\ FailedIds(last.failed_mods) \subseteq {last.mods[i].key : i \in DOMAIN last.mods}
        /\ Len(last.failed_mods) <= Len(last.mods)
        /\ last.completed <= Len(last.mods)

\* C5 as stated: a migration attempts every identified file and ends with the
\* profile's directory set to the new directory, whether or not a move failed.
C5_MigrationNeverAborts ==
    last.op = "edit_profile" =>
        /\ last.attempted = Len(last.to_move)
        /\ profiles[last.profile] = last.new_path

\* C5, what edit_profile does instead: the first relocation failure aborts the
\* migration. The files moved before it stay in the new directory, the files
\* after it are not attempted and stay in the old directory, and the profile
\* keeps the old directory; the directory becomes the new one exactly when
\* every identified file was moved.
C5_MigrationAbortsOnFirstFailure ==
    last.op = "edit_profile" =>
        /\ \A i \in 1..last.moved_count :
               /\ File(last.new_path, TopSeg, last.to_move[i]) \in files
               /\ File(last.old_path, TopSeg, last.to_move[i]) \notin files
        /\ \A i \in (last.moved_count + 1)..Len(last.to_move) :
               File(last.old_path, TopSeg, last.to_move[i]) \in files
        /\ last.attempted <= Len(last.to_move)
        /\ IF last.moved_count = Len(last.to_move)
           THEN profiles[last.profile] = last.new_path
           ELSE /\ profiles[last.profile] = last.old_path
                /\ last.attempted = last.moved_count + 1

\* C6: after a migration from O to N, a record that had installed_path O has
\* installed_path N exactly when its file was relocated to N, and O otherwise.
C6_PathFollowsFile ==
    [][(last'.op = "edit_profile" /\ ops' = ops + 1)
       => \A i \in DOMAIN mod_db :
              mod_db[i].val.installed_path = last'.old_path =>
                  LET relocated == \E j \in 1..last'.moved_count :
                                       last'.to_move[j] = mod_db[i].val.local_name
                  IN  mod_db'[i].val.installed_path =
                          IF relocated THEN last'.new_path ELSE last'.old_path]_vars

\* C7: after a successful install into profile P every eligible entry of the
\* archive has a record keyed by its file name, with local_name the key,
\* enabled, profile P, installed_path P's directory and the url installed from.
C7_EveryExtractedFileRegistered ==
    (last.op = "download_mod" /\ ~last.raised /\ last.fault = "none") =>
        \A i \in DOMAIN last.entries :
            IsValidEntry(last.entries[i]) =>
                /\ DictHas(mod_db, last.entries[i].base)
                /\ DictGet(mod_db, last.entries[i].base) =
                       ModInfo(last.entries[i].base, last.zip, last.profile, TRUE,
                               profiles[last.profile], last.url)

\* C8: an install that fails before registration (empty or unresolvable URL,
\* no file, download error, invalid or empty archive, extraction error) leaves
\* the database in memory and moddb.json as they were and does not save.
C8_FailedInstallLeavesDatabase ==
    [][(last'.op = "download_mod" /\ ops' = ops + 1 /\ last'.fault # "none")
       => /\ mod_db' = mod_db
          /\ db_file' = db_file
          /\ ~last'.saved]_vars

\* an install whose extraction broke off after writing a file
C8_Witness ==
    /\ last.op = "download_mod"
    /\ last.fault = "ExtractionFailed"
    /\ \E f \in files : f.name = NameA
    /\ mod_db = <<>>

\* C9: an archive without eligible entries makes extract_mod return the empty
\* list and keep the archive although remove_zip is set; the install, or the
\* record's update, fails: the archive is still in the directory and no
\* record is created or changed.
C9_EmptyArchiveKept ==
    [][/\ (last'.op = "download_mod" /\ last'.fault = "EmptyArchive")
          => /\ last'.extracted = <<>>
             /\ last'.raised
             /\ File(profiles[last'.profile], TopSeg, last'.zip) \in files'
             /\ mod_db' = mod_db
             /\ db_file' = db_file
       /\ (last'.op = "check_updates_mod" /\ last'.fault = "EmptyArchive")
          => /\ File(cu.mods[cu.i].val.installed_path, TopSeg, last'.zip) \in files'
             /\ mod_db' = mod_db
             /\ cu'.completed = cu.completed
             /\ cu'.failed_mods =
                    Append(cu.failed_mods,
                           <<last'.mod, "No files extracted from archive">>)]_vars

\* a bulk update met an archive without eligible entries
C9_Witness ==
    /\ last.op = "check_updates_mod"
    /\ last.fault = "EmptyArchive"
    /\ \E f \in files : f.name = last.zip

C12_UntrackedFilesStay ==
    last.op = "edit_profile" => last.untracked \subseteq files

\* a migration that moved a tracked file out of a directory holding an
\* untracked one
C12_Witness ==
    /\ last.op = "edit_profile"
    /\ last.result = "migrated"
    /\ last.moved_count > 0
    /\ last.untracked # {}

\* C13: the profile store holds a profile named "Default" in every state.
C13_DefaultAlwaysExists == "Default" \in DOMAIN profiles

\* C14: the profile store is never empty; deleting the only profile leaves
\* exactly the profile "Default" on the standard directory; new_profile and
\* rename_profile leave the store as it was when the name exists already; and
\* rename_profile leaves it as it was when the profile is "Default".
C14_StoreNeverEmpty ==
    /\ DOMAIN profiles # {}
    /\ (last.op = "delete_profile" /\ Cardinality(DOMAIN last.before) = 1)
           => profiles = [q \in {"Default"} |-> StdDir]
    /\ (last.op = "new_profile" /\ last.name \in DOMAIN last.before)
           => profiles = last.before
    /\ (last.op = "rename_profile" /\ last.new_name \in DOMAIN last.before)
           => profiles = last.before
    /\ (last.op = "rename_profile" /\ last.name = "Default")
           => profiles = last.before

\* the only profile, not the standard one, was deleted
C14_Witness ==
    /\ last.op = "delete_profile"
    /\ Cardinality(DOMAIN last.before) = 1
    /\ last.before # profiles

\* C15: safe_file_move reports failure only when the rename and the copy both
\* failed: when the rename failed, the copy went through and the source could
\* not be deleted, it returns True and the destination file exists.
C15_CopyCountsAsSuccess ==
    (last.op = "update_mod_state" /\ last.move_out # "none") =>
        /\ last.move_ok <=> last.move_out # "copy_failed"
        /\ last.move_out = "unlink_failed" => last.move_dst \in files

\* C16: a save is not blocked by a failing backup: when moddb.json exists and
\* copying it to moddb.json.bak fails, the new database is still written; and
\* when the backup succeeds, the .bak file holds what moddb.json held before.
C16_SaveSurvivesBackupFailure ==
    /\ (last.op = "save_mod_db" /\ last.out = "backup_failed")
           => db_file = SaveModDb(mod_db)
    /\ (last.op = "save_mod_db" /\ last.out = "ok"
           /\ last.file_before.state # "missing")
           => db_bak = last.file_before

C18_BulkUpdateRunsAlone ==
    cu.pc = "loop" => last.op \in {"check_updates_start", "check_updates_mod"}

\* C19: during check_updates the values set on the progress bar never go down
\* and stay within 0..100: every value an iteration sets is at least the value
\* the bar had before it, and at least the value set just before.
C19_BarNeverGoesBack ==
    last.op = "check_updates_mod" =>
        LET shown == <<last.bar>> \o last.bars
        IN  /\ \A i \in DOMAIN shown : shown[i] \in 0..100
            /\ \A i \in 1..(Len(shown) - 1) : shown[i] <= shown[i + 1]

\* C20: in check_updates, right before a record with a URL is downloaded again
\* no file matching the record is left in the active or the disabled
\* directory.
C20_NoStaleFileBeforeDownload ==
    (last.op = "check_updates_mod" /\ last.url # "" /\ last.fault # "PrepareError")
        => last.stale = {}

C22_ExtractSkipsDisabled ==
    last.op = "download_mod" =>
        /\ \A f \in last.written : f.seg # DisabledSeg
        /\ \/ last.extracted = <<>>
           \/ LET kept == SelectSeq(last.entries,
                                    LAMBDA e : e.base # <<>> /\ e.seg # DisabledSeg)
              IN  last.extracted = [i \in DOMAIN kept |-> kept[i].base]

\* an archive with an entry under .disabledmods was extracted to its end
C22_Witness ==
    /\ last.op = "download_mod"
    /\ last.fault = "none"
    /\ last.written # {}
    /\ \E i \in DOMAIN last.entries : last.entries[i].seg = DisabledSeg

\* C23: extract_mod removes the archive only when remove_zip is set and every
\* eligible entry was written: when the path is missing or not a .zip, when
\* no entry is eligible, or when an I/O error ends the loop, the list
\* returned is empty and the archive is on disk exactly if it was before;
\* a complete extraction returns the name of every eligible entry.
C23_ArchiveKeptUnlessComplete ==
    last.op = "extract_mod" =>
        LET zf == File(StdDir, TopSeg, last.zip)
            eligible == SelectSeq(last.entries,
                                  LAMBDA e : e.base # <<>> /\ e.seg # DisabledSeg)
            complete == /\ last.existed
                        /\ last.suffix = ".zip"
                        /\ Len(eligible) > 0
                        /\ ~last.err
        IN  /\ ~complete => /\ last.extracted = <<>>
                            /\ (zf \in files) = last.existed
            /\ complete => Len(last.extracted) = Len(eligible)
            /\ (last.existed /\ zf \notin files) => (last.remove_zip /\ complete)

\* an I/O error ended the loop after an entry was written, remove_zip set,
\* and the archive is still on disk
C23_Witness ==
    /\ last.op = "extract_mod"
    /\ last.existed
    /\ last.suffix = ".zip"
    /\ last.remove_zip
    /\ last.err
    /\ last.k >= 1
    /\ last.extracted = <<>>
    /\ File(StdDir, TopSeg, last.zip) \in files

\* C24: every value Downloader.download passes to the progress callback is
\* within 0..100 and the values never go down, for every declared size and
\* every chunking.
C24_PercentWithinRange ==
    download.pc # "idle" =>
        /\ \A i \in DOMAIN download.reported : download.reported[i] \in 0..100
        /\ \A i \in 1..(Len(download.reported) - 1) : download.reported[i] <= download.reported[i + 1]

\* C24, the part the code keeps: the values passed never go down and none is
\* negative; with a declared size of 0 no value is passed at all.
C24_PercentNeverGoesDown ==
    download.pc # "idle" =>
        /\ \A i \in DOMAIN download.reported : download.reported[i] >= 0
        /\ \A i \in 1..(Len(download.reported) - 1) : download.reported[i] <= download.reported[i + 1]
        /\ download.file_size = 0 => download.reported = <<>>

\* C25: a toggle of record X moves no file of another record: every file that
\* left its directory during the toggle is named X, or is the file of no
\* record.
C25_ToggleMovesOnlyItsFiles ==
    last.op = "on_mod_status_changed" =>
        \A f \in last.gone : f.name # last.mod => ~DictHas(mod_db, f.name)

\* C26: after a migration in which no move failed, no migrated record is left
\* behind: a record whose installed_path is now the new directory and whose
\* file was in the old directory has its file in the new directory, in the
\* active directory if it is enabled and in .disabledmods if it is disabled.
C26_MigratedFileWhereFlagSays ==
    (last.op = "edit_profile" /\ last.result = "migrated") =>
        \A i \in DOMAIN mod_db :
            LET info == mod_db[i].val
                left == {f \in files : /\ f.dir = last.old_path
                                       /\ f.seg \in {TopSeg, DisabledSeg}
                                       /\ f.name = info.local_name}
            IN  (info.installed_path = last.new_path /\ left # {}) =>
                    File(last.new_path,
                         IF info.enabled THEN TopSeg ELSE DisabledSeg,
                         info.local_name) \in files

\* C27: an installation or a round of the bulk update run for profile P
\* leaves every record of another profile in the database, unchanged.
C27_InstallKeepsOtherProfiles ==
    [][(\/ last'.op = "download_mod" /\ ops' = ops + 1
        \/ last'.op = "check_updates_mod" /\ cu'.i = cu.i + 1)
       => LET P == IF last'.op = "download_mod" THEN last'.profile ELSE cu.profile
          IN  \A i \in DOMAIN mod_db :
                  mod_db[i].val.profile # P =>
                      /\ DictHas(mod_db', mod_db[i].key)
                      /\ DictGet(mod_db', mod_db[i].key) = mod_db[i].val]_vars

\* C28: the profile field of every record names a profile of the store.
C28_RecordsNameStoredProfiles ==
    \A i \in DOMAIN mod_db : mod_db[i].val.profile \in DOMAIN profiles

\* C29: when a bulk update ends, every record of the profile that is still in
\* the database has a file matching its local name in its directory or in
\* the disabled subdirectory.
C29_UpdatedRecordsHaveFiles ==
    last.op = "check_updates" =>
        \A i \in DOMAIN mod_db :
            LET info == mod_db[i].val
            IN  info.profile = last.profile =>
                    Glob(files, info.installed_path, TopSeg, info.local_name)
                    \cup Glob(files, info.installed_path, DisabledSeg, info.local_name)
                        # {}

\* C30: safe_file_move never loses what it relocates: at every step the
\* content of the source is at the source path or at the destination path;
\* when it returns True the destination holds that content, and when it
\* returns False the source still holds it.
C30_ContentNeverLost ==
    move.pc # "idle" =>
        /\ move.src = move.content \/ move.dst = move.content
        /\ (move.pc = "returned" /\ move.ret) => move.dst = move.content
        /\ (move.pc = "returned" /\ ~move.ret) => move.src = move.content

\* the rename failed over an existing destination, the copy broke off after
\* truncating it, and safe_file_move returned False
C30_Witness ==
    /\ move.pc = "returned"
    /\ ~move.ret
    /\ move.dst = "partial"
    /\ last.op = "copy2"

====
